---- MODULE Spec2Model ----
(***************************************************************************)
(* Model of audit_pipeline.py: the availability probe                      *)
(* (check_tool_installed), the path validator (validate_contract_path),    *)
(* the analyzer wrapper (SlitherAnalyzer.run), the on-chain metadata        *)
(* fetcher (AuditPipeline.fetch_etherscan_data), the orchestrator           *)
(* (AuditPipeline.run_audit) and the entry point (main).                    *)
(*                                                                         *)
(* Python values are represented as follows.                               *)
(*  - str: a sequence of tokens.  A token is either one character of        *)
(*    user-controlled text (the credential, the address) or a whole         *)
(*    literal of the source (for instance the endpoint URL).                *)
(*  - None: the one-token sequence None; "not x" is Falsy(x).               *)
(*  - dict: a function whose domain is the set of keys.                     *)
(*  - a parsed JSON document: a tagged record [t |-> ..., v |-> ...].       *)
(*  - an exception raised by a collaborator: an outcome record whose kind   *)
(*    names the exception class.                                            *)
(***************************************************************************)
EXTENDS Integers, Sequences, FiniteSets, TLC

VARIABLES pc, env, results, metadata, report, prev_report, calls, clock,
          exit_code, ret, probes

vars == <<pc, env, results, metadata, report, prev_report, calls, clock,
          exit_code, ret, probes>>

(***************************************************************************)
(* Bounds of the model.                                                    *)
(***************************************************************************)
MaxKeyLen == 2
MaxAddrLen == 2
MaxFindings == 2
MaxRuns == 2

(***************************************************************************)
(* Strings.                                                                *)
(***************************************************************************)
\* the characters of an address (hexadecimal text) and of a credential
\* (upper-case alphanumeric text); the credential is not part of the address
\* the user passes
AddressChars == {"0", "f"}

KeyChars == {"K", "9"}

None == <<"<None>">>

EmptyDict == [k \in {} |-> 0]

Falsy_NoneOnly(s) == s = None

\* Python: "not s" for an Optional[str]
Falsy(s) == s = None \/ s = <<>>

StringsUpTo(chars, n) == UNION {[1..m -> chars] : m \in 0..n}

\* s[i..i+Len(sub)-1] = sub
MatchesAt(s, sub, i) ==
    /\ i + Len(sub) - 1 <= Len(s)
    /\ \A j \in 1..Len(sub) : s[i + j - 1] = sub[j]

\* Python: sub in s
Contains(s, sub) == \E i \in 1..(Len(s) + 1) : MatchesAt(s, sub, i)

RECURSIVE ReplaceFrom(_, _, _, _)
ReplaceFrom(s, old, new, i) ==
    IF i > Len(s) THEN <<>>
    ELSE IF MatchesAt(s, old, i)
         THEN new \o ReplaceFrom(s, old, new, i + Len(old))
         ELSE <<s[i]>> \o ReplaceFrom(s, old, new, i + 1)

RECURSIVE Interleave(_, _, _)
Interleave(s, new, i) ==
    IF i > Len(s) THEN new ELSE new \o <<s[i]>> \o Interleave(s, new, i + 1)

\* Python: s.replace(old, new): the occurrences of old, leftmost first and
\* non-overlapping; an empty old matches before every character and at the end
str_replace(s, old, new) ==
    IF old = <<>> THEN Interleave(s, new, 1) ELSE ReplaceFrom(s, old, new, 1)

(***************************************************************************)
(* TOOLS_CONFIG and check_tool_installed.                                  *)
(***************************************************************************)
TOOLS_CONFIG == {"slither", "mythril", "echidna", "certora", "mythx"}

\* the argv of the version query; <<>> when no branch of the if/elif chain
\* matches the name, in which case no process is started
VersionCommand(tool_name) ==
    CASE tool_name = "slither" -> <<"slither", "--version">>
      [] tool_name = "mythril" -> <<"myth", "--version">>
      [] tool_name = "echidna" -> <<"echidna", "--version">>
      [] tool_name = "certora" -> <<"certoraRun", "--version">>
      [] OTHER -> <<>>

\* what subprocess.run(argv, capture_output=True, check=True) can do: return
\* on exit status 0, or raise CalledProcessError (non-zero exit),
\* FileNotFoundError (no such executable) or PermissionError (an OSError
\* that is not a FileNotFoundError: the executable cannot be executed)
ProbeOutcomes == {"exit0", "CalledProcessError", "FileNotFoundError",
                  "PermissionError"}

\* except (subprocess.CalledProcessError, FileNotFoundError)
CaughtByProbe == {"CalledProcessError", "FileNotFoundError"}

\* value: the boolean returned; raised: an exception left the function;
\* spawned: a version-query process was started and ran to its exit
check_tool_installed(tool_name, outcome) ==
    IF VersionCommand(tool_name) = <<>>
    THEN [value |-> TRUE, raised |-> FALSE, spawned |-> FALSE]
    ELSE IF outcome = "exit0"
    THEN [value |-> TRUE, raised |-> FALSE, spawned |-> TRUE]
    ELSE IF outcome \in CaughtByProbe
    THEN [value |-> FALSE, raised |-> FALSE,
          spawned |-> (outcome = "CalledProcessError")]
    ELSE [value |-> FALSE, raised |-> TRUE, spawned |-> FALSE]

(***************************************************************************)
(* validate_contract_path.  A path is the pair of facts the function reads: *)
(* whether os.path.exists holds and whether the name ends in ".sol".        *)
(***************************************************************************)
Paths == [exists : BOOLEAN, sol : BOOLEAN]

validate_contract_path_NoSuffixCheck(contract_path) == contract_path.exists

validate_contract_path(contract_path) ==
    IF ~contract_path.exists THEN FALSE
    ELSE IF ~contract_path.sol THEN FALSE
    ELSE TRUE

(***************************************************************************)
(* Parsed JSON documents.                                                  *)
(***************************************************************************)
JNull == [t |-> "null"]
JBool(b) == [t |-> "bool", v |-> b]
JStr(s) == [t |-> "str", v |-> s]
JList(q) == [t |-> "list", v |-> q]
JDict(f) == [t |-> "dict", v |-> f]

\* Python: d.get(key, default); only a dict has the method, any other value
\* makes the call raise AttributeError (the caller tests IsDict first)
IsDict(j) == j.t = "dict"

dict_get(d, key, default) == IF key \in DOMAIN d.v THEN d.v[key] ELSE default

\* Python: "for x in j" is defined for list, dict (its keys) and str (its
\* characters); None, bool and numbers raise TypeError
Iterable(j) == j.t \in {"list", "dict", "str"}

RECURSIVE KeysAsSeq(_)
KeysAsSeq(K) ==
    IF K = {} THEN <<>>
    ELSE LET k == CHOOSE x \in K : TRUE IN <<JStr(k)>> \o KeysAsSeq(K \ {k})

\* the characters of a text; the documents of the model hold "" and "none"
\* where a list is expected
CharsOf(s) == IF s = "" THEN <<>> ELSE <<JStr("n"), JStr("o"), JStr("n"), JStr("e")>>

IterItems(j) ==
    CASE j.t = "list" -> j.v
      [] j.t = "dict" -> KeysAsSeq(DOMAIN j.v)
      [] j.t = "str" -> CharsOf(j.v)

\* Python: s.lower(), on the severity spellings of the model
str_lower(s) ==
    CASE s = "High" -> "high"
      [] s = "Critical" -> "critical"
      [] s = "Optimization" -> "optimization"
      [] OTHER -> s

(***************************************************************************)
(* SlitherAnalyzer.run.                                                    *)
(***************************************************************************)
\* the issues an analyzer document may list
Issues ==
    { JDict([severity |-> JStr("High")]),
      JDict([severity |-> JStr("Critical")]),
      JDict([severity |-> JStr("medium")]),
      JDict([severity |-> JStr("Optimization")]),
      JDict([check |-> JStr("reentrancy")]),
      JDict([severity |-> JNull]),
      JStr("none") }

IssueLists == UNION {[1..m -> Issues] : m \in 0..MaxFindings}

\* documents without the results/detections nesting, or with a value of
\* another type in its place; the last one is the nesting the analyzer's own
\* JSON writer uses (results.detectors, impact)
OddDocs ==
    { JList(<<>>),
      JDict(EmptyDict),
      JDict([results |-> JNull]),
      JDict([results |-> JDict(EmptyDict)]),
      JDict([results |-> JDict([detections |-> JNull])]),
      JDict([results |-> JDict([detections |-> JDict(EmptyDict)])]),
      JDict([results |-> JDict([detections |-> JStr("")])]),
      JDict([success |-> JBool(TRUE),
             results |-> JDict([detectors |->
                 JList(<<JDict([impact |-> JStr("High")])>>)])]) }

Detections(q) == JDict([results |-> JDict([detections |-> JList(q)])])

DetectionDocs == { Detections(q) : q \in IssueLists }

\* result.stdout: text json.loads rejects, or text that denotes a document
Stdouts ==
    {[parseable |-> FALSE]}
    \cup {[parseable |-> TRUE, doc |-> d] : d \in OddDocs \cup DetectionDocs}

\* what subprocess.run([...], capture_output=True, text=True, timeout=300)
\* can do: raise TimeoutExpired, raise another exception (FileNotFoundError,
\* PermissionError), or return a completed process
Completed(returncode, stdout) ==
    [kind |-> "completed", returncode |-> returncode, stdout |-> stdout]

Printed(doc) == [parseable |-> TRUE, doc |-> doc]

SlitherOutcomes ==
    {[kind |-> "TimeoutExpired"], [kind |-> "OSError"]}
    \cup {Completed(1, [parseable |-> FALSE])}
    \cup {Completed(0, o) : o \in Stdouts}

\* (datetime.now() - start_time).total_seconds() of a run that parsed
Elapsed == {1, 2}

ZeroCounts ==
    [critical |-> 0, high |-> 0, medium |-> 0, low |-> 0, informational |-> 0]

FailedAuditResult ==
    [tool_name |-> "Slither", severity_count |-> EmptyDict,
     findings |-> JList(<<>>), execution_time |-> 0, passed |-> FALSE]

\* the for loop of lines 162-165 from item i on; raised: an AttributeError
\* left the loop
RECURSIVE CountSeverities(_, _, _)
CountSeverities(items, i, severity_count) ==
    IF i > Len(items) THEN [raised |-> FALSE, severity_count |-> severity_count]
    ELSE LET issue == items[i] IN
         IF ~IsDict(issue) THEN [raised |-> TRUE]
         ELSE LET sev == dict_get(issue, "severity", JStr("informational")) IN
              IF sev.t # "str" THEN [raised |-> TRUE]
              ELSE LET severity == str_lower(sev.v) IN
                   CountSeverities(items, i + 1,
                       IF severity \in DOMAIN severity_count
                       THEN [severity_count EXCEPT ![severity] = @ + 1]
                       ELSE severity_count)

Passed_CriticalOnly(severity_count) == severity_count["critical"] = 0

\* line 168
Passed(severity_count) ==
    severity_count["critical"] = 0 /\ severity_count["high"] = 0

\* the body of "if result.returncode == 0" (lines 153-176); raised: an
\* exception left the block and reaches "except Exception"
ParseSlitherOutput(stdout, elapsed) ==
    IF ~stdout.parseable THEN [raised |-> TRUE]
    ELSE LET findings == stdout.doc IN
    IF ~IsDict(findings) THEN [raised |-> TRUE]
    ELSE LET res == dict_get(findings, "results", JDict(EmptyDict)) IN
    IF ~IsDict(res) THEN [raised |-> TRUE]
    ELSE LET detections == dict_get(res, "detections", JList(<<>>)) IN
    IF ~Iterable(detections) THEN [raised |-> TRUE]
    ELSE LET counted == CountSeverities(IterItems(detections), 1, ZeroCounts) IN
    IF counted.raised THEN [raised |-> TRUE]
    ELSE [raised |-> FALSE,
          value |-> [tool_name |-> "Slither",
                     severity_count |-> counted.severity_count,
                     findings |-> detections,
                     execution_time |-> elapsed,
                     passed |-> Passed(counted.severity_count)]]

\* SlitherAnalyzer.run: every exception class of the outcomes is a subclass
\* of Exception, so the handler of line 186 takes all of them
SlitherAnalyzer_run(outcome, elapsed) ==
    IF outcome.kind # "completed"
    THEN [raised |-> FALSE, value |-> FailedAuditResult]
    ELSE IF outcome.returncode = 0
    THEN LET parsed == ParseSlitherOutput(outcome.stdout, elapsed) IN
         IF parsed.raised
         THEN [raised |-> FALSE, value |-> FailedAuditResult]
         ELSE parsed
    ELSE [raised |-> FALSE, value |-> FailedAuditResult]

(***************************************************************************)
(* AuditPipeline.fetch_etherscan_data.                                     *)
(***************************************************************************)
ETHERSCAN_API == "https://api.etherscan.io/api"

\* the query strings of lines 254 and 260, after the endpoint
TxQuery(contract_address, api_key) ==
    <<"?module=account&action=txlist&address=">> \o contract_address
    \o <<"&startblock=0&endblock=99999999&sort=asc&apikey=">> \o api_key

SourceQuery(contract_address, api_key) ==
    <<"?module=contract&action=getsourcecode&address=">> \o contract_address
    \o <<"&apikey=">> \o api_key

\* Python truth value of a parsed JSON value
Truthy(j) ==
    CASE j.t = "null" -> FALSE
      [] j.t = "bool" -> j.v
      [] j.t = "str" -> j.v # ""
      [] j.t = "list" -> j.v # <<>>
      [] j.t = "dict" -> DOMAIN j.v # {}

CreationTx(ts) ==
    JDict([to |-> JStr(""), from |-> JStr("0xdeployer"), timeStamp |-> JStr(ts)])

TransferTx ==
    JDict([to |-> JStr("0xcontract"), from |-> JStr("0xsender"),
           timeStamp |-> JStr("1438269973")])

\* bodies of the transaction-list response
TxDocs ==
    { JDict([status |-> JStr("0"), result |-> JStr("Max rate limit reached")]),
      JDict([status |-> JStr("1"), result |-> JList(<<>>)]),
      JDict([status |-> JStr("1"), result |-> JList(<<TransferTx>>)]),
      JDict([status |-> JStr("1"),
             result |-> JList(<<CreationTx("1438269973"), TransferTx>>)]),
      JDict([status |-> JStr("1"), result |-> JList(<<CreationTx("pending")>>)]),
      JList(<<>>) }

\* bodies of the source-code response
SourceDocs ==
    { JDict([status |-> JStr("1"),
             result |-> JList(<<JDict([SourceCode |-> JStr("contract T {}")])>>)]),
      JDict([status |-> JStr("1"),
             result |-> JList(<<JDict([SourceCode |-> JStr("")])>>)]),
      JDict([status |-> JStr("1"),
             result |-> JDict([SourceCode |-> JStr("contract T {}")])]),
      JDict([status |-> JStr("0"), result |-> JStr("Invalid API Key")]),
      JDict([status |-> JStr("1"), result |-> JStr("Contract source code not verified")]) }

\* what "requests.get(url, timeout=10)" followed by ".json()" can do: raise a
\* requests.RequestException whose text does or does not quote the request
\* path and query (ConnectionError does, ReadTimeout does not), raise
\* ValueError (a body that is not JSON), or yield the parsed body
CallFailures ==
    { [kind |-> "RequestException", echoes_url |-> TRUE],
      [kind |-> "RequestException", echoes_url |-> FALSE],
      [kind |-> "ValueError"] }

TxOutcomes == CallFailures \cup {[kind |-> "ok", doc |-> d] : d \in TxDocs}

SourceOutcomes == CallFailures \cup {[kind |-> "ok", doc |-> d] : d \in SourceDocs}

\* str(e) of the exception of a failed call on the URL with this query
ExceptionText(outcome, query) ==
    IF outcome.kind = "RequestException"
    THEN IF outcome.echoes_url
         THEN <<"HTTPSConnectionPool(host='api.etherscan.io', port=443): Max retries exceeded with url: /api">>
              \o query
         ELSE <<"HTTPSConnectionPool(host='api.etherscan.io', port=443): Read timed out. (read timeout=10)">>
    ELSE <<"Expecting value: line 1 column 1 (char 0)">>

\* int(s) of line 278: defined on decimal text, ValueError otherwise
IsDecimal(s) == s \in {"0", "1438269973"}

\* datetime.fromtimestamp(int(s)).isoformat(), in UTC
IsoFromTimestamp(s) ==
    CASE s = "1438269973" -> "2015-07-30T15:26:13"
      [] s = "0" -> "1970-01-01T00:00:00"

\* lines 219-223
NoAddressPlaceholder ==
    [note |-> <<"No contract address provided. Pass --address parameter to fetch real data.">>,
     verification_status |-> <<"unknown">>,
     transaction_count |-> 0]

\* lines 231-238
SimulatedData(contract_address) ==
    [note |-> <<"Simulated data - set ETHERSCAN_API_KEY for real on-chain data">>,
     contract_address |-> contract_address,
     verification_status |-> <<"unknown">>,
     transaction_count |-> 0,
     deployer_address |-> <<"0x0000000000000000000000000000000000000000">>,
     creation_date |-> <<"Unknown">>]

\* lines 245-248
RequestsMissing ==
    [error |-> <<"requests library not available">>,
     note |-> <<"Install requests: pip install requests">>]

RequestErrorResult_Partial(text, contract_address) ==
    [error |-> <<"Failed to fetch data: ">> \o text,
     contract_address |-> contract_address,
     verification_status |-> <<"unknown">>,
     transaction_count |-> 0]

\* lines 300-303
RequestErrorResult(text, contract_address) ==
    [error |-> <<"Failed to fetch data: ">> \o text,
     contract_address |-> contract_address]

\* lines 306-309
UnexpectedErrorResult(text, contract_address) ==
    [error |-> <<"Unexpected error: ">> \o text,
     contract_address |-> contract_address]

\* the handlers of lines 298-309 for a failed call
CallErrorResult(outcome, query, contract_address) ==
    IF outcome.kind = "RequestException"
    THEN RequestErrorResult(ExceptionText(outcome, query), contract_address)
    ELSE UnexpectedErrorResult(ExceptionText(outcome, query), contract_address)

\* the loop of lines 275-280 from transaction i on; raised: AttributeError
\* (an entry that is not an object) or ValueError (int of the timestamp)
RECURSIVE FindCreation(_, _)
FindCreation(transactions, i) ==
    IF i > Len(transactions)
    THEN [raised |-> FALSE, deployer_address |-> <<"Unknown">>,
          creation_date |-> <<"Unknown">>]
    ELSE LET tx == transactions[i] IN
         IF ~IsDict(tx) THEN [raised |-> TRUE, text |-> <<"object has no attribute 'get'">>]
         ELSE IF dict_get(tx, "to", JNull) = JStr("")
         THEN LET from == dict_get(tx, "from", JStr("Unknown"))
                  ts == dict_get(tx, "timeStamp", JStr("0")) IN
              IF ~IsDecimal(ts.v)
              THEN [raised |-> TRUE, text |-> <<"invalid literal for int() with base 10">>]
              ELSE [raised |-> FALSE, deployer_address |-> <<from.v>>,
                    creation_date |-> <<IsoFromTimestamp(ts.v)>>]
         ELSE FindCreation(transactions, i + 1)

\* lines 266-280
ParseTransactions(tx_data) ==
    IF ~IsDict(tx_data)
    THEN [raised |-> TRUE, text |-> <<"object has no attribute 'get'">>]
    ELSE IF dict_get(tx_data, "status", JNull) = JStr("1")
            /\ Truthy(dict_get(tx_data, "result", JNull))
    THEN LET transactions == tx_data.v["result"]
             found == FindCreation(transactions.v, 1) IN
         IF found.raised THEN found
         ELSE [raised |-> FALSE, transaction_count |-> Len(transactions.v),
               deployer_address |-> found.deployer_address,
               creation_date |-> found.creation_date]
    ELSE [raised |-> FALSE, transaction_count |-> 0,
          deployer_address |-> <<"Unknown">>, creation_date |-> <<"Unknown">>]

\* lines 283-287
ParseVerification(source_data) ==
    IF ~IsDict(source_data)
    THEN [raised |-> TRUE, text |-> <<"object has no attribute 'get'">>]
    ELSE IF dict_get(source_data, "status", JNull) = JStr("1")
            /\ Truthy(dict_get(source_data, "result", JNull))
    THEN LET r == source_data.v["result"]
             result == IF r.t = "list" THEN r.v[1] ELSE r IN
         IF ~IsDict(result)
         THEN [raised |-> TRUE, text |-> <<"object has no attribute 'get'">>]
         ELSE [raised |-> FALSE,
               verification_status |->
                   IF Truthy(dict_get(result, "SourceCode", JNull))
                   THEN <<"verified">> ELSE <<"not_verified">>]
    ELSE [raised |-> FALSE, verification_status |-> <<"not_verified">>]

\* the try block of lines 252-309; value: the dict returned; network_calls:
\* the number of requests.get calls made
FetchReal(contract_address, api_key, tx, source) ==
    LET tx_query == TxQuery(contract_address, api_key)
        source_query == SourceQuery(contract_address, api_key)
        tx_url == <<ETHERSCAN_API>> \o tx_query IN
    IF tx.kind # "ok"
    THEN [value |-> CallErrorResult(tx, tx_query, contract_address),
          network_calls |-> 1]
    ELSE IF source.kind # "ok"
    THEN [value |-> CallErrorResult(source, source_query, contract_address),
          network_calls |-> 2]
    ELSE LET txs == ParseTransactions(tx.doc) IN
    IF txs.raised
    THEN [value |-> UnexpectedErrorResult(txs.text, contract_address),
          network_calls |-> 2]
    ELSE LET ver == ParseVerification(source.doc) IN
    IF ver.raised
    THEN [value |-> UnexpectedErrorResult(ver.text, contract_address),
          network_calls |-> 2]
    ELSE [value |-> [contract_address |-> contract_address,
                     verification_status |-> ver.verification_status,
                     transaction_count |-> txs.transaction_count,
                     deployer_address |-> txs.deployer_address,
                     creation_date |-> txs.creation_date,
                     api_endpoint |-> str_replace(tx_url, api_key, <<"*", "*", "*">>)],
          network_calls |-> 2]

\* fetch_etherscan_data(contract_address) with os.getenv("ETHERSCAN_API_KEY")
\* = api_key, "import requests" succeeding iff requests_installed, and the
\* two calls behaving as tx and source
fetch_etherscan_data(contract_address, api_key, requests_installed, tx, source) ==
    IF Falsy(contract_address)
    THEN [value |-> NoAddressPlaceholder, network_calls |-> 0]
    ELSE IF Falsy(api_key)
    THEN [value |-> SimulatedData(contract_address), network_calls |-> 0]
    ELSE IF ~requests_installed
    THEN [value |-> RequestsMissing, network_calls |-> 0]
    ELSE FetchReal(contract_address, api_key, tx, source)

(***************************************************************************)
(* AuditPipeline.run_audit.                                                *)
(***************************************************************************)
AuditLevel == {"quick", "standard", "deep", "forensic"}

ErrorReport == [error |-> "Invalid contract path"]

\* lines 336-344
Summaries(rs) ==
    [i \in 1..Len(rs) |->
        [tool |-> rs[i].tool_name, passed |-> rs[i].passed,
         severity_count |-> rs[i].severity_count,
         execution_time |-> rs[i].execution_time]]

\* run_audit on a pipeline whose fields are self_results and self_metadata,
\* in the environment e, at time now.  raised: an exception left run_audit
\* (no report is returned).  The last four fields count the calls made.
run_audit(self_results, self_metadata, e, now) ==
    IF ~validate_contract_path(e.path)
    THEN [raised |-> FALSE, report |-> ErrorReport,
          results |-> self_results, metadata |-> self_metadata,
          fetch |-> 0, network |-> 0, probe |-> 0, analyzer |-> 0]
    ELSE
    LET contract_address ==
            IF "contract_address" \in DOMAIN self_metadata
            THEN self_metadata["contract_address"] ELSE None
        fetched == fetch_etherscan_data(contract_address, e.api_key,
                       e.requests_installed, e.tx, e.source)
        metadata1 == ("etherscan_data" :> fetched.value) @@ self_metadata
        runs_tools == e.level \in AuditLevel
        installed == check_tool_installed("slither", e.probe)
    IN
    IF runs_tools /\ installed.raised
    THEN [raised |-> TRUE, report |-> EmptyDict,
          results |-> self_results, metadata |-> metadata1,
          fetch |-> 1, network |-> fetched.network_calls,
          probe |-> 1, analyzer |-> 0]
    ELSE
    LET analysed == runs_tools /\ installed.value
        results1 ==
            IF analysed
            THEN Append(self_results,
                        SlitherAnalyzer_run(e.slither, e.elapsed).value)
            ELSE self_results
    IN [raised |-> FALSE,
        report |-> [contract |-> e.path, audit_level |-> e.level,
                    timestamp |-> now, results |-> Summaries(results1),
                    metadata |-> metadata1],
        results |-> results1, metadata |-> metadata1,
        fetch |-> 1, network |-> fetched.network_calls,
        probe |-> IF runs_tools THEN 1 ELSE 0,
        analyzer |-> IF analysed THEN 1 ELSE 0]

(***************************************************************************)
(* Environments.                                                           *)
(***************************************************************************)
Addresses == {None} \cup StringsUpTo(AddressChars, MaxAddrLen)

\* os.getenv: None when the variable is unset, its text otherwise
ApiKeys == {None} \cup StringsUpTo(KeyChars, MaxKeyLen)

NotCalled == [called |-> FALSE]

NoCalls == [fetch |-> 0, network |-> 0, probe |-> 0, analyzer |-> 0]

\* the environments of a pipeline run: every path, level and probe outcome,
\* with and without address and credential, and one analyzer and one API
\* outcome of each kind
PipelineEnvs ==
    [path : Paths,
     level : AuditLevel,
     address : {None, <<"0">>},
     api_key : {None, <<"K">>},
     requests_installed : BOOLEAN,
     tx : {[kind |-> "RequestException", echoes_url |-> TRUE],
           [kind |-> "ok", doc |-> JDict([status |-> JStr("1"),
               result |-> JList(<<CreationTx("1438269973"), TransferTx>>)])]},
     source : {[kind |-> "ValueError"],
               [kind |-> "ok", doc |-> JDict([status |-> JStr("1"),
                   result |-> JList(<<JDict([SourceCode |-> JStr("contract T {}")])>>)])]},
     probe : ProbeOutcomes,
     slither : {[kind |-> "TimeoutExpired"],
                Completed(1, [parseable |-> FALSE]),
                Completed(0, [parseable |-> FALSE]),
                Completed(0, Printed(JDict(EmptyDict))),
                Completed(0, Printed(Detections(<<>>))),
                Completed(0, Printed(Detections(
                    <<JDict([severity |-> JStr("medium")])>>))),
                Completed(0, Printed(Detections(
                    <<JDict([severity |-> JStr("High")]),
                      JDict([check |-> JStr("reentrancy")])>>)))},
     elapsed : Elapsed]

(***************************************************************************)
(* main: one pipeline, one run_audit, one exit.  Init is the state after    *)
(* AuditPipeline.__init__ (lines 200-204).                                  *)
(***************************************************************************)
Init ==
    /\ env \in PipelineEnvs
    /\ pc = "constructed"
    /\ results = <<>>
    /\ metadata = EmptyDict
    /\ report = EmptyDict
    /\ prev_report = EmptyDict
    /\ calls = NoCalls
    /\ clock = 0
    /\ exit_code = -1
    /\ ret = NotCalled
    /\ probes = [t \in TOOLS_CONFIG |-> NotCalled]

\* main, lines 383-384: "if args.address: metadata[...] = args.address"
SetAddress ==
    /\ pc = "constructed"
    /\ pc' = "ready"
    /\ metadata' = IF Falsy(env.address) THEN metadata
                   ELSE ("contract_address" :> env.address) @@ metadata
    /\ UNCHANGED <<env, results, report, prev_report, calls, clock,
                   exit_code, ret, probes>>

\* one call of run_audit on the pipeline.  The report of the call before
\* holds a reference to self.metadata, so it sees the new metadata.
CallRunAudit ==
    LET r == run_audit(results, metadata, env, clock + 1) IN
    /\ clock' = clock + 1
    /\ pc' = IF r.raised THEN "raised" ELSE "ran"
    /\ results' = r.results
    /\ metadata' = r.metadata
    /\ report' = r.report
    /\ prev_report' = IF "metadata" \in DOMAIN report
                      THEN [report EXCEPT !.metadata = r.metadata]
                      ELSE report
    /\ calls' = [fetch |-> calls.fetch + r.fetch,
                 network |-> calls.network + r.network,
                 probe |-> calls.probe + r.probe,
                 analyzer |-> calls.analyzer + r.analyzer]
    /\ UNCHANGED <<env, exit_code, ret, probes>>

\* main, line 387
RunAudit ==
    /\ pc = "ready"
    /\ CallRunAudit

\* main, lines 390-395: the report is written out; no field of the pipeline
\* changes
WriteReport ==
    /\ pc = "ran"
    /\ pc' = "reported"
    /\ UNCHANGED <<env, results, metadata, report, prev_report, calls, clock,
                   exit_code, ret, probes>>

\* all(r.passed for r in pipeline.results)
AllPassed(rs) == \A i \in 1..Len(rs) : rs[i].passed

\* main, lines 398-399
Exit ==
    /\ pc = "reported"
    /\ pc' = "done"
    /\ exit_code' = IF AllPassed(results) THEN 0 ELSE 1
    /\ UNCHANGED <<env, results, metadata, report, prev_report, calls, clock,
                   ret, probes>>

\* main has no handler around line 387: an exception that leaves run_audit
\* ends the interpreter with a traceback and exit status 1
UncaughtException ==
    /\ pc = "raised"
    /\ pc' = "done"
    /\ exit_code' = 1
    /\ UNCHANGED <<env, results, metadata, report, prev_report, calls, clock,
                   ret, probes>>

Next == SetAddress \/ RunAudit \/ WriteReport \/ Exit \/ UncaughtException

Spec == Init /\ [][Next]_vars

(***************************************************************************)
(* A caller that keeps the pipeline and calls run_audit again, in the same  *)
(* environment.                                                            *)
(***************************************************************************)
RunAuditAgain ==
    /\ pc \in {"ran", "raised"}
    /\ clock < MaxRuns
    /\ CallRunAudit

NextReuse == SetAddress \/ RunAudit \/ RunAuditAgain

SpecReuse == Init /\ [][NextReuse]_vars

(***************************************************************************)
(* The analyzer wrapper on its own.                                        *)
(***************************************************************************)
InitSlither ==
    /\ env \in [slither : SlitherOutcomes, elapsed : Elapsed]
    /\ pc = "start"
    /\ results = <<>>
    /\ metadata = EmptyDict
    /\ report = EmptyDict
    /\ prev_report = EmptyDict
    /\ calls = NoCalls
    /\ clock = 0
    /\ exit_code = -1
    /\ ret = NotCalled
    /\ probes = [t \in TOOLS_CONFIG |-> NotCalled]

Analyze ==
    /\ pc = "start"
    /\ pc' = "analyzed"
    /\ ret' = [called |-> TRUE] @@ SlitherAnalyzer_run(env.slither, env.elapsed)
    /\ calls' = [calls EXCEPT !.analyzer = @ + 1]
    /\ UNCHANGED <<env, results, metadata, report, prev_report, clock,
                   exit_code, probes>>

NextSlither == Analyze

SpecSlither == InitSlither /\ [][NextSlither]_vars

(***************************************************************************)
(* The metadata fetcher on its own.                                        *)
(***************************************************************************)
InitFetch ==
    /\ env \in [address : Addresses, api_key : ApiKeys,
                requests_installed : BOOLEAN,
                tx : TxOutcomes, source : SourceOutcomes]
    /\ pc = "start"
    /\ results = <<>>
    /\ metadata = EmptyDict
    /\ report = EmptyDict
    /\ prev_report = EmptyDict
    /\ calls = NoCalls
    /\ clock = 0
    /\ exit_code = -1
    /\ ret = NotCalled
    /\ probes = [t \in TOOLS_CONFIG |-> NotCalled]

Fetch ==
    LET r == fetch_etherscan_data(env.address, env.api_key,
                 env.requests_installed, env.tx, env.source) IN
    /\ pc = "start"
    /\ pc' = "fetched"
    /\ ret' = [called |-> TRUE, value |-> r.value]
    /\ calls' = [calls EXCEPT !.fetch = @ + 1, !.network = @ + r.network_calls]
    /\ UNCHANGED <<env, results, metadata, report, prev_report, clock,
                   exit_code, probes>>

NextFetch == Fetch

SpecFetch == InitFetch /\ [][NextFetch]_vars

(***************************************************************************)
(* The availability probe on its own: each tool of TOOLS_CONFIG is probed   *)
(* once, in any order, with any outcome of its version query.               *)
(***************************************************************************)
InitProbe ==
    /\ env = EmptyDict
    /\ pc = "start"
    /\ results = <<>>
    /\ metadata = EmptyDict
    /\ report = EmptyDict
    /\ prev_report = EmptyDict
    /\ calls = NoCalls
    /\ clock = 0
    /\ exit_code = -1
    /\ ret = NotCalled
    /\ probes = [t \in TOOLS_CONFIG |-> NotCalled]

Probe ==
    \E tool_name \in TOOLS_CONFIG, outcome \in ProbeOutcomes :
        /\ ~probes[tool_name].called
        /\ probes' = [probes EXCEPT ![tool_name] =
               [called |-> TRUE, outcome |-> outcome]
               @@ check_tool_installed(tool_name, outcome)]
        /\ calls' = [calls EXCEPT !.probe = @ + 1]
        /\ UNCHANGED <<pc, env, results, metadata, report, prev_report,
                       clock, exit_code, ret>>

NextProbe == Probe

SpecProbe == InitProbe /\ [][NextProbe]_vars

(***************************************************************************)
(* Properties.                                                             *)
(***************************************************************************)

\* C1: a run_audit call on a contract path that does not exist or does not
\* end in .sol returns the error report and makes no call of the metadata
\* fetcher, the availability probe or the analyzer (and no network call);
\* results and metadata are left as they were.
C1_InvalidPathShortCircuits ==
    [][(pc = "ready" /\ (~env.path.exists \/ ~env.path.sol))
       => /\ pc' = "ran"
          /\ report' = ErrorReport
          /\ calls' = calls
          /\ results' = results
          /\ metadata' = metadata]_vars

\* C1, reached: run_audit has returned the error report for a file that
\* exists but is not a .sol file, with an address set in the metadata.
C1_Witness ==
    /\ pc = "ran"
    /\ env.path.exists /\ ~env.path.sol
    /\ report = ErrorReport
    /\ calls = NoCalls
    /\ "contract_address" \in DOMAIN metadata

\* C2: with an address and a credential both present, the credential occurs
\* in no text field of the structure fetch_etherscan_data returns
\* (api_endpoint, error, contract_address and the others).
C2_CredentialNeverReturned ==
    (pc = "fetched" /\ env.address \notin {None, <<>>}
                    /\ env.api_key \notin {None, <<>>})
    => \A f \in DOMAIN ret.value \ {"transaction_count"} :
           ~Contains(ret.value[f], env.api_key)

\* a severity bucket's count in a severity_count dict: a bucket that was
\* never counted holds no finding
CountOf(severity_count, bucket) ==
    IF bucket \in DOMAIN severity_count THEN severity_count[bucket] ELSE 0

\* C3 as stated: every AuditResult of SlitherAnalyzer.run, on the success
\* path and on every failure path, has passed true iff its critical count
\* and its high count are both zero.
C3_PassedIffNoCriticalNoHigh ==
    pc = "analyzed"
    => (ret.value.passed
        <=> /\ CountOf(ret.value.severity_count, "critical") = 0
            /\ CountOf(ret.value.severity_count, "high") = 0)

\* C3 amended: every AuditResult of SlitherAnalyzer.run has passed true iff
\* its severity_count holds the critical and the high bucket and both are
\* zero (on a failure path severity_count is empty and passed is false).
C3_PassedIffCountedClean ==
    pc = "analyzed"
    => (ret.value.passed
        <=> /\ {"critical", "high"} \subseteq DOMAIN ret.value.severity_count
            /\ ret.value.severity_count["critical"] = 0
            /\ ret.value.severity_count["high"] = 0)

\* C3, reached: the analyzer reported one high-severity finding and nothing
\* critical, and the result did not pass.
C3_Witness ==
    /\ pc = "analyzed"
    /\ ret.value.severity_count = [ZeroCounts EXCEPT !["high"] = 1]
    /\ ~ret.value.passed

\* C4: when main has ended, the exit code is 0 if every AuditResult in
\* pipeline.results passed (also when there is none) and 1 otherwise.
C4_ExitCodeIsVerdict ==
    pc = "done"
    => exit_code = IF \A i \in 1..Len(results) : results[i].passed
                   THEN 0 ELSE 1

\* C5: every structure fetch_etherscan_data returns is exactly one of a
\* normal result (no note, no error), a note-marked placeholder (note, no
\* error) and an error-marked failure (error, no note).
C5_ExactlyOneShape ==
    pc = "fetched"
    => LET note == "note" \in DOMAIN ret.value
           error == "error" \in DOMAIN ret.value
       IN Cardinality({k \in {"normal", "placeholder", "failure"} :
              \/ k = "normal" /\ ~note /\ ~error
              \/ k = "placeholder" /\ note /\ ~error
              \/ k = "failure" /\ error /\ ~note}) = 1

\* the shape the analyzer's output is expected to have: a results object
\* with a list of detections, each an object with a severity text
ExpectedShape(doc) ==
    /\ doc.t = "dict"
    /\ "results" \in DOMAIN doc.v
    /\ doc.v["results"].t = "dict"
    /\ "detections" \in DOMAIN doc.v["results"].v
    /\ LET d == doc.v["results"].v["detections"] IN
       /\ d.t = "list"
       /\ \A i \in 1..Len(d.v) :
            /\ d.v[i].t = "dict"
            /\ "severity" \in DOMAIN d.v[i].v
            /\ d.v[i].v["severity"].t = "str"

\* C6: SlitherAnalyzer.run never raises, and on a timeout, any other
\* exception, a non-zero exit, or output that cannot be parsed or is not of
\* the expected shape it returns the failed AuditResult (empty
\* severity_count, empty findings, execution_time 0, passed false).
C6_FailuresGiveFailedResult ==
    pc = "analyzed"
    => /\ ~ret.raised
       /\ (\/ env.slither.kind # "completed"
           \/ env.slither.returncode # 0
           \/ ~env.slither.stdout.parseable
           \/ ~ExpectedShape(env.slither.stdout.doc))
          => ret.value = FailedAuditResult

\* C7: for every tool of the supported set, check_tool_installed returns
\* true only if a version query ran and exited with status 0, and returns
\* false, without raising, when the query exits non-zero, the executable is
\* missing, or the invocation fails in another way.
C7_ProbeIsTotalAndSound ==
    \A t \in TOOLS_CONFIG :
        probes[t].called
        => /\ (~probes[t].raised /\ probes[t].value)
              => (probes[t].spawned /\ probes[t].outcome = "exit0")
           /\ (VersionCommand(t) # <<>> /\ probes[t].outcome # "exit0")
              => (~probes[t].raised /\ ~probes[t].value)

\* C8: a fetch_etherscan_data call with no credential configured (with or
\* without an address) makes no network call and returns a note-marked
\* placeholder with transaction_count 0 and verification_status "unknown".
C8_NoCredentialNoNetwork ==
    (pc = "fetched" /\ env.api_key \in {None, <<>>})
    => /\ calls.network = 0
       /\ "note" \in DOMAIN ret.value
       /\ "error" \notin DOMAIN ret.value
       /\ ret.value.transaction_count = 0
       /\ ret.value.verification_status = <<"unknown">>

\* C8, reached: an address was given, the credential variable is set to the
\* empty text, and the simulated placeholder came back.
C8_Witness ==
    /\ pc = "fetched"
    /\ env.api_key = <<>>
    /\ env.address = <<"0", "f">>
    /\ "note" \in DOMAIN ret.value
    /\ "deployer_address" \in DOMAIN ret.value

\* C9: with address and credential present (and the HTTP library there), a
\* failure of the transaction-list call or of the source call returns a
\* structure whose only fields are error and contract_address.
C9_NoPartialData ==
    (/\ pc = "fetched"
     /\ env.address \notin {None, <<>>}
     /\ env.api_key \notin {None, <<>>}
     /\ env.requests_installed
     /\ (env.tx.kind # "ok" \/ env.source.kind # "ok"))
    => /\ DOMAIN ret.value = {"error", "contract_address"}
       /\ ret.value.contract_address = env.address

\* C9, reached: the transaction list came back with transactions, then the
\* source call failed, and an error-marked structure was returned.
C9_Witness ==
    /\ pc = "fetched"
    /\ env.address = <<"0", "f">>
    /\ env.api_key = <<"K", "9">>
    /\ env.tx.kind = "ok"
    /\ ~ParseTransactions(env.tx.doc).raised
    /\ ParseTransactions(env.tx.doc).transaction_count = 2
    /\ env.source.kind = "RequestException"
    /\ calls.network = 2
    /\ "error" \in DOMAIN ret.value

\* a report without its timestamp field
SansTimestamp(r) == [k \in DOMAIN r \ {"timestamp"} |-> r[k]]

\* C10: the report of a second run_audit call, made with the inputs and the
\* external responses of the first, equals the first report in every field
\* but timestamp.
C10_SecondReportEqualsFirst ==
    (pc = "ran" /\ clock >= 2)
    => SansTimestamp(report) = SansTimestamp(prev_report)

====
